---- MODULE Spec2Model ----
(***************************************************************************)
(* Model of the RBAC event indexer (class RbacIndexer): the SQLite tables  *)
(* it writes, the event source it polls, and the polling loop               *)
(* start -> poll -> pollWithRetry -> pollContract -> processEvent.          *)
(***************************************************************************)
EXTENDS Integers, Sequences, FiniteSets, TLC

\* ------------------------------------------------------------------ bounds
\* Highest ledger the event source ever closes (one event per ledger).
MaxLedger == 3
\* getEvents' `limit` (1000 in the source), scaled to the model's ledger.
PageLimit == 2
\* Faults injected in one behaviour: a refused write, a kill of the process,
\* an answer from a node that lags behind the ledger.
MaxFaults == 1
\* The longest page whose projection is explored on its own (SpecProj).
ProjLen == 3
\* The longest page of the crash-and-restart scenario (SpecD).
ScenarioLen == 5
\* The most events in the ledger while the queries are explored (SpecQ).
QueryLen == 3
\* The greatest --limit of the recent-events query.
MaxLimit == 2
\* The greatest maxRetries option given to the SDK's withRetry.
MaxSdkRetries == 4
\* The polls the SDK's watchRoleEvents starts (the first one and the timer's).
MaxPolls == 3

\* pollWithRetry's default maxRetries.
MaxRetries == 3

\* undefined / NULL for a text field, and for a numeric field.
None == "undefined"
NoNum == -1

Contracts == {"c1", "c2"}

\* ------------------------------------------------- the event source's input
\* scValToNative(event.value), by the parts parseEvent reads: whether it is an
\* array, its elements (or itself) as text, and as a number.
Val(isArr, s0, s1, n0) == [isArray |-> isArr, str0 |-> s0, str1 |-> s1, num0 |-> n0]

\* A raw event (SorobanRpc.Api.EventResponse): topic[0] (tag), topic[1] (role),
\* topic[2] (account), the value, ledgerClosedAt, and whether scValToNative
\* decodes it at all. The source adds the emitting contract and the event id.
Raw(tag, role, account, value, closedAt, decodes) ==
    [tag |-> tag, role |-> role, account |-> account, value |-> value,
     closedAt |-> closedAt, decodes |-> decodes]

Emitted(c, i, raw) == [contract |-> c, id |-> i, raw |-> raw]

\* The raw events a contract may emit: one of each kind, a second grant with
\* an older close time, an unknown tag, a grant without its account topic, and
\* an event whose topics do not decode.
RawCreated == Raw("RoleCreat", "OPERATOR", None, Val(FALSE, "DEF_ADMIN", None, NoNum), 1, TRUE)
RawGranted == Raw("RoleGrant", "OPERATOR", "X", Val(TRUE, None, "G", 5), 2, TRUE)
RawGrantedOld == Raw("RoleGrant", "OPERATOR", "X", Val(TRUE, None, "G", 0), 1, TRUE)
RawRevoked == Raw("RoleRevok", "OPERATOR", "X", Val(FALSE, "G", None, NoNum), 2, TRUE)
RawAdminChanged ==
    Raw("AdminChg", "OPERATOR", None, Val(TRUE, "DEF_ADMIN", "NEW_ADMIN", NoNum), 2, TRUE)
RawExpired == Raw("RoleExpir", "OPERATOR", "X", Val(FALSE, None, None, 5), 2, TRUE)
RawUnknown == Raw("Upgraded", None, None, Val(FALSE, "v2", None, NoNum), 2, TRUE)
RawNoAccount == Raw("RoleGrant", "OPERATOR", None, Val(TRUE, None, "G", 5), 2, TRUE)
RawUndecodable == Raw("RoleGrant", "OPERATOR", "X", Val(FALSE, None, None, NoNum), 2, FALSE)

RawShapes ==
    {RawCreated, RawGranted, RawGrantedOld, RawRevoked, RawAdminChanged, RawExpired,
     RawUnknown, RawNoAccount, RawUndecodable}

\* The raw events contract c emits while the polling loop is explored.
PollShapes(c) ==
    IF c = "c1" THEN {RawCreated, RawGranted, RawRevoked} ELSE {RawGranted}

\* ------------------------------------------------------------------- state
VARIABLES
    chain,          \* the ledger: chain[i] is the event closed in ledger i
    contracts,      \* table contracts: id -> row
    roles,          \* table roles: <<contract_id, role>> -> row
    members,        \* table role_members: <<contract_id, role, account>> -> row
    events,         \* table events, in insertion (id) order
    indexer_state,  \* table indexer_state: key -> value (text)
    running,        \* RbacIndexer.running
    pc,             \* where the process is
    queue,          \* poll(): the contracts still to poll in this cycle
    cur,            \* the contract being polled
    attempt,        \* pollWithRetry's attempt
    page,           \* response.events
    latest,         \* response.latestLedger
    idx,            \* the events of the page processed so far
    okLog,          \* history: okLog[i] iff the handler of events[i] completed
    pageFailed,     \* history: a handler failed while applying this page
    faults,         \* history: the faults injected so far
    pageStart,      \* history: the tables when the page being applied was fetched
    crashRec,       \* history: the last kill that cut a page, until its contract
                    \*          has been polled again
    pollStart,      \* history: the tables when pollWithRetry was called for cur,
                    \*          and whether a getEvents of this call has answered
    skipped,        \* history: the contracts pollWithRetry gave up on in this cycle
    slept,          \* history: the backoff delays (ms) slept for cur in this cycle
    out,            \* the output of the last query run on the database
    sdk             \* the SDK call in progress in a client process

vars == <<chain, contracts, roles, members, events, indexer_state, running, pc,
          queue, cur, attempt, page, latest, idx, okLog, pageFailed, faults,
          pageStart, crashRec, pollStart, skipped, slept, out, sdk>>

dbVars == <<contracts, roles, members, events, indexer_state>>

Empty == <<>>

\* ------------------------------------------------------------ Event Parser
\* parseEvent's typeMap.
typeMap ==
    [RoleCreat |-> "RoleCreated", RoleGrant |-> "RoleGranted",
     RoleRevok |-> "RoleRevoked", AdminChg |-> "RoleAdminChanged",
     RoleExpir |-> "RoleExpired"]

\* parseEvent's catch: no event.
Null == [null |-> TRUE]

\* parseEvent(contractId, event): a ParsedEvent, or Null when decoding throws.
parseEvent(contractId, event) ==
    IF ~event.raw.decodes THEN Null
    ELSE
      LET topics0 == event.raw.tag
          value == event.raw.value
          eventType == IF topics0 \in DOMAIN typeMap THEN typeMap[topics0] ELSE topics0
      IN  [contractId |-> contractId,
           eventType |-> eventType,
           role |-> IF event.raw.role = None THEN "" ELSE event.raw.role,
           account |-> event.raw.account,
           expiry |-> CASE eventType = "RoleGranted" ->
                             IF value.isArray THEN value.num0 ELSE NoNum
                        [] eventType = "RoleExpired" -> value.num0
                        [] OTHER -> NoNum,
           adminRole |-> IF eventType = "RoleCreated" THEN value.str0 ELSE None,
           previousAdmin |-> IF eventType = "RoleAdminChanged" /\ value.isArray
                             THEN value.str0 ELSE None,
           newAdmin |-> IF eventType = "RoleAdminChanged" /\ value.isArray
                        THEN value.str1 ELSE None,
           txHash |-> event.id,
           ledgerTimestamp |-> event.raw.closedAt]

\* --------------------------------------------------------- State Projector
\* INSERT OR REPLACE on a table with a UNIQUE key, and DELETE ... WHERE key.
\* (The AUTOINCREMENT id of roles and role_members is read by no statement
\* and is not kept.)
Upsert(table, key, row) ==
    [k \in DOMAIN table \cup {key} |-> IF k = key THEN row ELSE table[k]]

Delete(table, key) == [k \in DOMAIN table \ {key} |-> table[k]]

\* A variant of storeEvent that keeps one row per tx_hash (INSERT OR IGNORE on
\* a unique tx_hash).
storeEventOnce(evs, event) ==
    IF \E j \in 1..Len(evs) : evs[j].tx_hash = event.txHash /\
                               evs[j].contract_id = event.contractId
    THEN evs
    ELSE Append(evs, [contract_id |-> event.contractId, event_type |-> event.eventType,
                      payload |-> event, tx_hash |-> event.txHash,
                      created_at |-> event.ledgerTimestamp])

\* A variant of storeEvent that keeps the latest row only (INSERT OR REPLACE
\* on a fixed id).
storeEventReplace(evs, event) ==
    LET row == [contract_id |-> event.contractId, event_type |-> event.eventType,
                payload |-> event, tx_hash |-> event.txHash,
                created_at |-> event.ledgerTimestamp]
    IN  IF evs = <<>> THEN <<row>> ELSE [evs EXCEPT ![Len(evs)] = row]

\* storeEvent: INSERT INTO events.
storeEvent(evs, event) ==
    Append(evs, [contract_id |-> event.contractId, event_type |-> event.eventType,
                 payload |-> event, tx_hash |-> event.txHash,
                 created_at |-> event.ledgerTimestamp])

\* A variant of handleRoleCreated that binds the role where the admin role
\* belongs.
handleRoleCreatedSelfAdmin(rs, event) ==
    Upsert(rs, <<event.contractId, event.role>>,
           [admin_role |-> event.role, created_at |-> event.ledgerTimestamp])

handleRoleCreated(rs, event) ==
    Upsert(rs, <<event.contractId, event.role>>,
           [admin_role |-> event.adminRole, created_at |-> event.ledgerTimestamp])

\* A variant of handleRoleGranted that adds the granted time to the expiry
\* the row already holds.
handleRoleGrantedExtend(ms, event) ==
    LET key == <<event.contractId, event.role, event.account>>
    IN  Upsert(ms, key,
               [expiry |-> (IF key \in DOMAIN ms THEN ms[key].expiry ELSE 0)
                           + (IF event.expiry = NoNum THEN 0 ELSE event.expiry),
                last_updated |-> event.ledgerTimestamp])

\* A variant of handleRoleGranted that keeps the row with the newer embedded
\* timestamp.
handleRoleGrantedNewest(ms, event) ==
    LET key == <<event.contractId, event.role, event.account>>
    IN  IF key \in DOMAIN ms /\ ms[key].last_updated > event.ledgerTimestamp
        THEN ms
        ELSE Upsert(ms, key,
                    [expiry |-> IF event.expiry = NoNum THEN 0 ELSE event.expiry,
                     last_updated |-> event.ledgerTimestamp])

handleRoleGranted(ms, event) ==
    Upsert(ms, <<event.contractId, event.role, event.account>>,
           [expiry |-> IF event.expiry = NoNum THEN 0 ELSE event.expiry,
            last_updated |-> event.ledgerTimestamp])

handleRoleRevoked(ms, event) ==
    Delete(ms, <<event.contractId, event.role, event.account>>)

\* A variant of handleRoleAdminChanged that replaces the row by deleting it
\* and inserting nothing.
handleRoleAdminChangedDrop(rs, event) ==
    Delete(rs, <<event.contractId, event.role>>)

handleRoleAdminChanged(rs, event) ==
    LET key == <<event.contractId, event.role>>
    IN  IF key \in DOMAIN rs
        THEN [rs EXCEPT ![key] = [@ EXCEPT !.admin_role = event.newAdmin]]
        ELSE rs

\* A variant of handleRoleExpired that marks the row as expired rather than
\* deleting it.
handleRoleExpiredMark(ms, event) ==
    LET key == <<event.contractId, event.role, event.account>>
    IN  IF key \in DOMAIN ms
        THEN [ms EXCEPT ![key] = [@ EXCEPT !.expiry = event.expiry]]
        ELSE ms

handleRoleExpired(ms, event) ==
    Delete(ms, <<event.contractId, event.role, event.account>>)

\* A statement's run() throws when a bound parameter is undefined.
BindThrows(event) ==
    CASE event.eventType \in {"RoleGranted", "RoleRevoked", "RoleExpired"} ->
             event.account = None
      [] event.eventType = "RoleAdminChanged" -> event.newAdmin = None
      [] OTHER -> FALSE

\* The event kinds processEvent's switch has a case for.
HandledKinds == {typeMap[t] : t \in DOMAIN typeMap}

\* processEvent's switch: the roles table after the handler of `event`.
ProjectRoles(rs, event) ==
    CASE event.eventType = "RoleCreated" -> handleRoleCreated(rs, event)
      [] event.eventType = "RoleAdminChanged" -> handleRoleAdminChanged(rs, event)
      [] OTHER -> rs

\* A variant of the switch whose default case clears the table.
ProjectMembersStrict(ms, event) ==
    CASE event.eventType = "RoleGranted" -> handleRoleGranted(ms, event)
      [] event.eventType = "RoleRevoked" -> handleRoleRevoked(ms, event)
      [] event.eventType = "RoleExpired" -> handleRoleExpired(ms, event)
      [] OTHER -> Empty

\* processEvent's switch: the role_members table after the handler of `event`.
ProjectMembers(ms, event) ==
    CASE event.eventType = "RoleGranted" -> handleRoleGranted(ms, event)
      [] event.eventType = "RoleRevoked" -> handleRoleRevoked(ms, event)
      [] event.eventType = "RoleExpired" -> handleRoleExpired(ms, event)
      [] OTHER -> ms

\* Whether the handler of `event` throws: its statement cannot be bound, or the
\* store refuses the write (ioFail: the database is locked, the disk is full).
HandlerThrows(event, ioFail) ==
    event.eventType \in HandledKinds /\ (BindThrows(event) \/ ioFail)

\* processEvent after storeEvent: the tables the handler leaves; a handler
\* that throws has written nothing, and processEvent's catch only logs.
ApplyRoles(rs, event, ioFail) ==
    IF HandlerThrows(event, ioFail) THEN rs ELSE ProjectRoles(rs, event)

ApplyMembers(ms, event, ioFail) ==
    IF HandlerThrows(event, ioFail) THEN ms ELSE ProjectMembers(ms, event)

\* -------------------------------------------------------- Checkpoint Store
\* Number.prototype.toString(): the decimal digits of a ledger number.
RECURSIVE toString(_)
toString(n) == IF n < 10 THEN <<n>> ELSE Append(toString(n \div 10), n % 10)

\* parseInt(text, 10) of a digit string (NaN, here NoNum, of the empty one).
RECURSIVE parseInt(_)
parseInt(s) ==
    IF s = <<>> THEN NoNum
    ELSE IF Len(s) = 1 THEN s[1]
    ELSE parseInt(SubSeq(s, 1, Len(s) - 1)) * 10 + s[Len(s)]

\* getLastIndexedLedger: the stored value, or undefined (NoNum) without a row.
getLastIndexedLedger(st, contractId) ==
    IF contractId \in DOMAIN st THEN parseInt(st[contractId]) ELSE NoNum

\* A variant of setLastIndexedLedger that keeps one position for all the
\* contracts (a key without the contract id).
setLastIndexedLedgerShared(st, contractId, ledger) ==
    [k \in DOMAIN st \cup {contractId} |-> toString(ledger)]

\* setLastIndexedLedger: INSERT OR REPLACE INTO indexer_state.
setLastIndexedLedger(st, contractId, ledger) ==
    Upsert(st, contractId, toString(ledger))

\* ------------------------------------------------------------------ Poller
\* A variant of startLedger that asks for the checkpoint's ledger again.
startLedgerInclusive(st, contractId) ==
    LET lastLedger == getLastIndexedLedger(st, contractId)
    IN  IF lastLedger # NoNum /\ lastLedger # 0 THEN lastLedger ELSE 1

\* pollContract's startLedger: lastLedger ? lastLedger + 1 : 1.
startLedger(st, contractId) ==
    LET lastLedger == getLastIndexedLedger(st, contractId)
    IN  IF lastLedger # NoNum /\ lastLedger # 0 THEN lastLedger + 1 ELSE 1

Min(a, b) == IF a < b THEN a ELSE b

\* server.getEvents as answered by a node whose latest ledger is `view`: the
\* contract's events from ledger `start` on, at most `limit` of them.
getEvents(ch, contractId, start, limit, view) ==
    LET all == SelectSeq(SubSeq(ch, start, view), LAMBDA e : e.contract = contractId)
    IN  [events |-> SubSeq(all, 1, Min(Len(all), limit)), latestLedger |-> view]

\* poll()'s SELECT id FROM contracts, in primary-key order.
ContractOrder == <<"c1", "c2">>

SelectContracts(cs) == SelectSeq(ContractOrder, LAMBDA c : c \in DOMAIN cs)

\* No snapshot, no recorded kill, no query run yet, no SDK call made.
NoOut == [op |-> "none"]
NoSdk == [op |-> "none"]
NoSnap == [none |-> TRUE]
NoCrash == [none |-> TRUE]

Init ==
    /\ chain = <<>>
    /\ contracts = Empty
    /\ roles = Empty
    /\ members = Empty
    /\ events = <<>>
    /\ indexer_state = Empty
    /\ running = FALSE
    /\ pc = "boot"
    /\ queue = <<>>
    /\ cur = None
    /\ attempt = 0
    /\ page = <<>>
    /\ latest = 0
    /\ idx = 0
    /\ okLog = <<>>
    /\ pageFailed = FALSE
    /\ faults = 0
    /\ pageStart = NoSnap
    /\ crashRec = NoCrash
    /\ pollStart = NoSnap
    /\ skipped = {}
    /\ slept = <<>>
    /\ out = NoOut
    /\ sdk = NoSdk

\* The event source closes a ledger holding one event of contract c. Only
\* getEvents reads the ledger, so a ledger closed at any other moment is seen
\* no earlier than one closed while the next fetch is pending.
Emit(c, raw) ==
    /\ Len(chain) < MaxLedger
    /\ pc = "fetch"
    /\ chain' = Append(chain, Emitted(c, Len(chain) + 1, raw))
    /\ UNCHANGED <<contracts, roles, members, events, indexer_state, running, pc,
                   queue, cur, attempt, page, latest, idx, okLog, pageFailed, faults,
                   pageStart, crashRec, pollStart, skipped>>
    /\ UNCHANGED <<slept, out, sdk>>

\* INSERT OR IGNORE: the row is inserted unless its key is there.
InsertOrIgnore(table, key, row) ==
    IF key \in DOMAIN table THEN table ELSE Upsert(table, key, row)

\* A variant of registerContract that replaces the row (INSERT OR REPLACE).
registerContractReplace(contractId, now) ==
    /\ pc = "boot"
    /\ contracts' = Upsert(contracts, contractId, [deployed_at |-> now])
    /\ UNCHANGED <<chain, roles, members, events, indexer_state, running, pc,
                   queue, cur, attempt, page, latest, idx, okLog, pageFailed, faults,
                   pageStart, crashRec, pollStart, skipped>>
    /\ UNCHANGED <<slept, out, sdk>>

\* registerContract, called by main before start, at time `now`
\* (Math.floor(Date.now() / 1000)): INSERT OR IGNORE.
registerContract(contractId, now) ==
    /\ pc = "boot"
    /\ contracts' = InsertOrIgnore(contracts, contractId, [deployed_at |-> now])
    /\ UNCHANGED <<chain, roles, members, events, indexer_state, running, pc,
                   queue, cur, attempt, page, latest, idx, okLog, pageFailed, faults,
                   pageStart, crashRec, pollStart, skipped>>
    /\ UNCHANGED <<slept, out, sdk>>

\* pollWithRetry returns: poll()'s loop goes to the next contract of the cycle,
\* or the cycle ends and start() sleeps. `st` is indexer_state as the step
\* leaves it.
NextContract(q, st) ==
    /\ page' = <<>>
    /\ latest' = 0
    /\ idx' = 0
    /\ pageFailed' = FALSE
    /\ pageStart' = NoSnap
    /\ crashRec' = IF crashRec # NoCrash /\ crashRec.contract = cur
                   THEN NoCrash ELSE crashRec
    /\ pollStart' = IF q = <<>> THEN NoSnap
                    ELSE [roles |-> roles, members |-> members, events |-> events,
                          indexer_state |-> st, fetched |-> FALSE]
    /\ IF q = <<>>
       THEN pc' = "sleeping" /\ cur' = None /\ queue' = <<>> /\ attempt' = 0
       ELSE pc' = "fetch" /\ cur' = Head(q) /\ queue' = Tail(q) /\ attempt' = 1
    /\ slept' = <<>>

\* start(): running = true, and the first poll() begins.
start ==
    /\ pc = "boot"
    /\ running' = TRUE
    /\ NextContract(SelectContracts(contracts), indexer_state)
    /\ skipped' = {}
    /\ UNCHANGED <<chain, contracts, roles, members, events, indexer_state, okLog,
                   faults>>
    /\ UNCHANGED <<out, sdk>>

\* A variant of the loop that starts poll() on a timer, whether or not the
\* previous poll() has returned.
pollOverlapping ==
    /\ pc \in {"sleeping", "fetch", "backoff"}
    /\ running
    /\ NextContract(SelectContracts(contracts), indexer_state)
    /\ skipped' = {}
    /\ UNCHANGED <<chain, contracts, roles, members, events, indexer_state, running,
                   okLog, faults>>
    /\ UNCHANGED <<out, sdk>>

\* start()'s loop: the sleep ends and the next poll() begins.
poll ==
    /\ pc = "sleeping"
    /\ running
    /\ NextContract(SelectContracts(contracts), indexer_state)
    /\ skipped' = {}
    /\ UNCHANGED <<chain, contracts, roles, members, events, indexer_state, running,
                   okLog, faults>>
    /\ UNCHANGED <<out, sdk>>

\* A variant of FetchOk that stores the checkpoint as soon as getEvents has
\* answered, before the page is applied.
FetchOkCheckpointFirst(view, limit) ==
    /\ pc = "fetch"
    /\ view < Len(chain) => faults < MaxFaults
    /\ faults' = IF view < Len(chain) THEN faults + 1 ELSE faults
    /\ LET response == getEvents(chain, cur, startLedger(indexer_state, cur),
                                 limit, view)
       IN  /\ page' = response.events
           /\ latest' = response.latestLedger
           /\ pc' = IF response.events = <<>> THEN "checkpoint" ELSE "apply"
           /\ indexer_state' =
                  IF response.latestLedger # 0
                  THEN setLastIndexedLedger(indexer_state, cur, response.latestLedger)
                  ELSE indexer_state
    /\ idx' = 0
    /\ pageFailed' = FALSE
    /\ pageStart' = [roles |-> roles, members |-> members, events |-> events]
    /\ pollStart' = [pollStart EXCEPT !.fetched = TRUE]
    /\ UNCHANGED <<chain, contracts, roles, members, events, running,
                   queue, cur, attempt, okLog, crashRec, skipped>>
    /\ UNCHANGED <<slept, out, sdk>>

\* pollContract up to the answer of getEvents, given by a node whose latest
\* ledger is `view` (a node behind the ledger's tip is a fault).
FetchOk(view, limit) ==
    /\ pc = "fetch"
    /\ view < Len(chain) => faults < MaxFaults
    /\ faults' = IF view < Len(chain) THEN faults + 1 ELSE faults
    /\ LET response == getEvents(chain, cur, startLedger(indexer_state, cur),
                                 limit, view)
       IN  /\ page' = response.events
           /\ latest' = response.latestLedger
           /\ pc' = IF response.events = <<>> THEN "checkpoint" ELSE "apply"
    /\ idx' = 0
    /\ pageFailed' = FALSE
    /\ pageStart' = [roles |-> roles, members |-> members, events |-> events]
    /\ pollStart' = [pollStart EXCEPT !.fetched = TRUE]
    /\ UNCHANGED <<chain, contracts, roles, members, events, indexer_state, running,
                   queue, cur, attempt, okLog, crashRec, skipped>>
    /\ UNCHANGED <<slept, out, sdk>>

\* A variant of backoffMs whose exponent is the attempt.
backoffMsNext(n) == 1000 * 2 ^ n

\* pollWithRetry's backoffMs = 1000 * Math.pow(2, attempt - 1).
backoffMs(n) == 1000 * 2 ^ (n - 1)

\* A variant of the catch that throws the last attempt's error on: start()
\* rejects and main's catch exits the process.
RethrownFatal ==
    IF attempt = MaxRetries
    THEN /\ pc' = "exited"
         /\ queue' = <<>>
         /\ cur' = None
         /\ attempt' = 0
         /\ page' = <<>>
         /\ latest' = 0
         /\ idx' = 0
         /\ pageFailed' = FALSE
         /\ pageStart' = NoSnap
         /\ crashRec' = NoCrash
         /\ pollStart' = NoSnap
         /\ skipped' = skipped \cup {cur}
         /\ slept' = <<>>
    ELSE /\ pc' = "backoff"
         /\ page' = <<>>
         /\ latest' = 0
         /\ idx' = 0
         /\ pageFailed' = FALSE
         /\ pageStart' = NoSnap
         /\ crashRec' = IF pc = "checkpoint" THEN NoCrash ELSE crashRec
         /\ slept' = Append(slept, backoffMs(attempt))
         /\ UNCHANGED <<queue, cur, attempt, pollStart, skipped>>

\* pollWithRetry's catch: the last attempt gives up, an earlier one backs off.
Rethrown ==
    IF attempt = MaxRetries
    THEN /\ NextContract(queue, indexer_state)
         /\ skipped' = skipped \cup {cur}
    ELSE /\ pc' = "backoff"
         /\ page' = <<>>
         /\ latest' = 0
         /\ idx' = 0
         /\ pageFailed' = FALSE
         /\ pageStart' = NoSnap
         /\ crashRec' = IF pc = "checkpoint" THEN NoCrash ELSE crashRec
         /\ slept' = Append(slept, backoffMs(attempt))
         /\ UNCHANGED <<queue, cur, attempt, pollStart, skipped>>

\* A variant of FetchNotFound that throws the error on to pollWithRetry.
FetchNotFoundRethrown ==
    /\ pc = "fetch"
    /\ Rethrown
    /\ UNCHANGED <<chain, contracts, roles, members, events, indexer_state, running,
                   okLog, faults>>
    /\ UNCHANGED <<out, sdk>>

\* getEvents rejects with a message holding 'not found': pollContract swallows
\* it and returns.
FetchNotFound ==
    /\ pc = "fetch"
    /\ NextContract(queue, indexer_state)
    /\ UNCHANGED <<chain, contracts, roles, members, events, indexer_state, running,
                   okLog, faults, skipped>>
    /\ UNCHANGED <<out, sdk>>

\* getEvents (or the checkpoint read before it) rejects with any other error.
FetchFail ==
    /\ pc = "fetch"
    /\ Rethrown
    /\ UNCHANGED <<chain, contracts, roles, members, events, indexer_state, running,
                   okLog, faults>>
    /\ UNCHANGED <<out, sdk>>

\* pollWithRetry: the backoff sleep ends and the next attempt begins.
Backoff ==
    /\ pc = "backoff"
    /\ attempt' = attempt + 1
    /\ pc' = "fetch"
    /\ UNCHANGED <<chain, contracts, roles, members, events, indexer_state, running,
                   queue, cur, page, latest, idx, okLog, pageFailed, faults,
                   pageStart, crashRec, pollStart, skipped>>
    /\ UNCHANGED <<slept, out, sdk>>

\* processEvent on the next event of the page; ioFail: the store refuses the
\* handler's write.
processEvent(ioFail) ==
    /\ pc = "apply"
    /\ ioFail => faults < MaxFaults
    /\ faults' = IF ioFail THEN faults + 1 ELSE faults
    /\ LET parsed == parseEvent(cur, page[idx + 1])
       IN  IF parsed = Null
           THEN UNCHANGED <<roles, members, events, okLog, pageFailed>>
           ELSE /\ events' = storeEvent(events, parsed)
                /\ roles' = ApplyRoles(roles, parsed, ioFail)
                /\ members' = ApplyMembers(members, parsed, ioFail)
                /\ okLog' = Append(okLog, ~HandlerThrows(parsed, ioFail))
                /\ pageFailed' = (pageFailed \/ HandlerThrows(parsed, ioFail))
    /\ idx' = idx + 1
    /\ pc' = IF idx + 1 = Len(page) THEN "checkpoint" ELSE "apply"
    /\ UNCHANGED <<chain, contracts, indexer_state, running, queue, cur, attempt,
                   page, latest, pageStart, crashRec, pollStart, skipped>>
    /\ UNCHANGED <<slept, out, sdk>>

\* A variant of Checkpoint that writes the checkpoint only after a page that
\* held events.
CheckpointIfEvents ==
    /\ pc = "checkpoint"
    /\ indexer_state' = IF latest # 0 /\ page # <<>>
                        THEN setLastIndexedLedger(indexer_state, cur, latest)
                        ELSE indexer_state
    /\ NextContract(queue, indexer_state')
    /\ UNCHANGED <<chain, contracts, roles, members, events, running, okLog, faults,
                   skipped>>
    /\ UNCHANGED <<out, sdk>>

\* pollContract after the loop: if (response.latestLedger) setLastIndexedLedger.
Checkpoint ==
    /\ pc = "checkpoint"
    /\ indexer_state' = IF latest # 0
                        THEN setLastIndexedLedger(indexer_state, cur, latest)
                        ELSE indexer_state
    /\ NextContract(queue, indexer_state')
    /\ UNCHANGED <<chain, contracts, roles, members, events, running, okLog, faults,
                   skipped>>
    /\ UNCHANGED <<out, sdk>>

\* setLastIndexedLedger throws (the store refuses the write): pollContract
\* rethrows it to pollWithRetry.
CheckpointFail ==
    /\ pc = "checkpoint"
    /\ latest # 0
    /\ faults < MaxFaults
    /\ faults' = faults + 1
    /\ Rethrown
    /\ UNCHANGED <<chain, contracts, roles, members, events, indexer_state, running,
                   okLog>>
    /\ UNCHANGED <<out, sdk>>

\* The process is killed and started again: main runs from the top on the
\* same database file.
Crash ==
    /\ pc # "boot"
    /\ faults < MaxFaults
    /\ faults' = faults + 1
    /\ pc' = "boot"
    /\ running' = FALSE
    /\ queue' = <<>>
    /\ cur' = None
    /\ attempt' = 0
    /\ page' = <<>>
    /\ latest' = 0
    /\ idx' = 0
    /\ pageFailed' = FALSE
    /\ pageStart' = NoSnap
    /\ crashRec' = IF pc = "apply" /\ idx > 0 /\ ~pageFailed
                   THEN [contract |-> cur, k |-> idx, page |-> page, start |-> pageStart]
                   ELSE NoCrash
    /\ pollStart' = NoSnap
    /\ skipped' = {}
    /\ UNCHANGED <<chain, contracts, roles, members, events, indexer_state, okLog>>
    /\ slept' = <<>>
    /\ UNCHANGED <<out, sdk>>

\* A variant of Signal whose handler runs at any point of the loop, between
\* two events of a page as well.
SignalPreempting ==
    /\ pc \notin {"boot", "exited"}
    /\ pc' = "exited"
    /\ running' = FALSE
    /\ queue' = <<>>
    /\ cur' = None
    /\ attempt' = 0
    /\ page' = <<>>
    /\ latest' = 0
    /\ idx' = 0
    /\ pageFailed' = FALSE
    /\ pageStart' = NoSnap
    /\ crashRec' = NoCrash
    /\ pollStart' = NoSnap
    /\ skipped' = {}
    /\ UNCHANGED <<chain, contracts, roles, members, events, indexer_state, okLog,
                   faults>>
    /\ slept' = <<>>
    /\ UNCHANGED <<out, sdk>>

\* main's SIGINT / SIGTERM handler, run at a point where the process awaits
\* (the fetch, the backoff sleep, the sleep between cycles): stop(), close()
\* and process.exit(0), in one go. pc = "exited": the store is closed and the
\* process is gone.
Signal ==
    /\ pc \in {"fetch", "backoff", "sleeping"}
    /\ pc' = "exited"
    /\ running' = FALSE
    /\ queue' = <<>>
    /\ cur' = None
    /\ attempt' = 0
    /\ page' = <<>>
    /\ latest' = 0
    /\ idx' = 0
    /\ pageFailed' = FALSE
    /\ pageStart' = NoSnap
    /\ crashRec' = NoCrash
    /\ pollStart' = NoSnap
    /\ skipped' = {}
    /\ UNCHANGED <<chain, contracts, roles, members, events, indexer_state, okLog,
                   faults>>
    /\ slept' = <<>>
    /\ UNCHANGED <<out, sdk>>

\* The wall clock (seconds) read by a step, taken as the time the last ledger
\* closed: it advances with the ledger.
Clock == {Len(chain)}

\* A node's view of the ledger: its tip, or any earlier ledger.
Views == 0..Len(chain)

Next ==
    \/ \E c \in Contracts : \E raw \in PollShapes(c) : Emit(c, raw)
    \/ \E c \in Contracts : \E now \in Clock : registerContract(c, now)
    \/ start
    \/ poll
    \/ \E view \in Views : FetchOk(view, PageLimit)
    \/ FetchNotFound
    \/ FetchFail
    \/ Backoff
    \/ \E ioFail \in BOOLEAN : processEvent(ioFail)
    \/ Checkpoint
    \/ CheckpointFail
    \/ Crash
    \/ Signal

Spec == Init /\ [][Next]_vars

\* ------------------------------------------------ the poller kept running
\* getEvents rejects with a transient error (network, timeout); the source
\* fails finitely often, within the budget of faults.
FetchFailTransient ==
    /\ pc = "fetch"
    /\ faults < MaxFaults
    /\ faults' = faults + 1
    /\ Rethrown
    /\ UNCHANGED <<chain, contracts, roles, members, events, indexer_state, running,
                   okLog>>
    /\ UNCHANGED <<out, sdk>>

\* The indexer is neither killed nor signalled, the store takes every write,
\* and the node answers with the ledger's tip.
NextLive ==
    \/ \E c \in Contracts : \E raw \in PollShapes(c) : Emit(c, raw)
    \/ \E c \in Contracts : \E now \in Clock : registerContract(c, now)
    \/ start
    \/ poll
    \/ FetchOk(Len(chain), PageLimit)
    \/ FetchFailTransient
    \/ Backoff
    \/ processEvent(FALSE)
    \/ Checkpoint

\* The event loop runs every continuation and timer that is due: a step of
\* the loop that stays possible is taken.
SpecLive == Init /\ [][NextLive]_vars /\ WF_vars(NextLive)

\* ------------------------------------------- the projector on its own pages
\* All the pages of 1..n events over the shapes S.
PagesOf(S, n) == UNION {[1..m -> S] : m \in 1..n}

\* The position at which the event at position i of P is first delivered: a
\* later occurrence of the same event is its re-delivery, under the same id.
FirstAt(P, i) == CHOOSE j \in 1..i : P[j] = P[i] /\ \A h \in 1..(j - 1) : P[h] # P[i]

\* The state right after getEvents has answered, on a new database, with the
\* events P of contract c, `redelivery` telling whether equal events are one
\* event delivered again or distinct events.
Fetched(c, P, redelivery) ==
    /\ chain = [i \in 1..Len(P) |->
                   Emitted(c, IF redelivery THEN FirstAt(P, i) ELSE i, P[i])]
    /\ page = chain
    /\ latest = Len(P)
    /\ contracts = [k \in {c} |-> [deployed_at |-> 0]]
    /\ roles = Empty
    /\ members = Empty
    /\ events = <<>>
    /\ indexer_state = Empty
    /\ running = TRUE
    /\ pc = "apply"
    /\ queue = <<>>
    /\ cur = c
    /\ attempt = 1
    /\ idx = 0
    /\ okLog = <<>>
    /\ pageFailed = FALSE
    /\ faults = 0
    /\ pageStart = [roles |-> Empty, members |-> Empty, events |-> <<>>]
    /\ crashRec = NoCrash
    /\ pollStart = [roles |-> Empty, members |-> Empty, events |-> <<>>,
                    indexer_state |-> Empty, fetched |-> TRUE]
    /\ skipped = {}
    /\ slept = <<>>
    /\ out = NoOut
    /\ sdk = NoSdk

\* Every stream of at most ProjLen events, of either contract, is applied.
InitProj == \E c \in Contracts : \E P \in PagesOf(RawShapes, ProjLen) : Fetched(c, P, TRUE)

NextProj == \E ioFail \in BOOLEAN : processEvent(ioFail)

SpecProj == InitProj /\ [][NextProj]_vars

\* ------------------------------------------ the crash-and-restart scenario
\* The events of the scenario's pages: the kinds that write a table.
ScenarioShapes == {RawCreated, RawGranted, RawRevoked, RawAdminChanged}

\* A page of at most ScenarioLen events has been fetched; the limit of
\* getEvents (1000) is above its length.
InitD == \E P \in PagesOf(ScenarioShapes, ScenarioLen) : Fetched("c1", P, FALSE)

NextD ==
    \/ processEvent(FALSE)
    \/ Crash
    \/ start
    \/ FetchOk(Len(chain), ScenarioLen)
    \/ Checkpoint

SpecD == InitD /\ [][NextD]_vars

\* ---------------------------------------------------------- the query layer
\* The orders in which SELECT ... ORDER BY returns the rows S: every
\* enumeration of S sorted by the column `key` (a function of the row); rows
\* with equal keys come in any order.
OrderBy(S, key, desc) ==
    {f \in [1..Cardinality(S) -> S] :
        /\ \A i, j \in 1..Cardinality(S) : i # j => f[i] # f[j]
        /\ \A i, j \in 1..Cardinality(S) :
               i < j => IF desc THEN key[f[i]] >= key[f[j]] ELSE key[f[i]] <= key[f[j]]}

\* LIMIT n: the first n rows; a negative n is no limit.
Limit(rows, n) == IF n < 0 THEN rows ELSE SubSeq(rows, 1, Min(Len(rows), n))

\* SELECT role, admin_role, created_at FROM roles WHERE contract_id = ?
\* ORDER BY created_at DESC.
selectRoles(rs, contractId) ==
    {[i \in 1..Len(f) |-> [role |-> f[i][2], admin_role |-> rs[f[i]].admin_role,
                           created_at |-> rs[f[i]].created_at]] :
        f \in OrderBy({k \in DOMAIN rs : k[1] = contractId},
                      [k \in DOMAIN rs |-> rs[k].created_at], TRUE)}

\* A variant of isExpired that counts the instant of expiry as expired.
isExpiredAtBoundary(expiry, now) == expiry # 0 /\ expiry <= now

\* listMembers' status: member.expiry !== 0 && member.expiry < now.
isExpired(expiry, now) == expiry # 0 /\ expiry < now

\* SELECT account, expiry, last_updated FROM role_members WHERE contract_id = ?
\* AND role = ? ORDER BY last_updated DESC, each row with its status at `now`.
selectMembers(ms, contractId, role, now) ==
    {[i \in 1..Len(f) |-> [account |-> f[i][3], expiry |-> ms[f[i]].expiry,
                           last_updated |-> ms[f[i]].last_updated,
                           isExpired |-> isExpired(ms[f[i]].expiry, now)]] :
        f \in OrderBy({k \in DOMAIN ms : k[1] = contractId /\ k[2] = role},
                      [k \in DOMAIN ms |-> ms[k].last_updated], TRUE)}

\* A variant of the window's WHERE clause that includes the window's end.
expiringWhereInclusive(expiry, now, maxExpiry) ==
    expiry > 0 /\ expiry > now /\ expiry <= maxExpiry

\* listExpiring's and getSummary's WHERE clause: expiry > 0 AND expiry > ? AND
\* expiry < ?, bound to now and the window's end.
expiringWhere(expiry, now, maxExpiry) ==
    expiry > 0 /\ expiry > now /\ expiry < maxExpiry

\* SELECT role, account, expiry FROM role_members WHERE contract_id = ? AND
\* (the window) ORDER BY expiry ASC.
selectExpiring(ms, contractId, now, maxExpiry) ==
    {[i \in 1..Len(f) |-> [role |-> f[i][2], account |-> f[i][3],
                           expiry |-> ms[f[i]].expiry]] :
        f \in OrderBy({k \in DOMAIN ms :
                          k[1] = contractId /\ expiringWhere(ms[k].expiry, now, maxExpiry)},
                      [k \in DOMAIN ms |-> ms[k].expiry], FALSE)}

\* getSummary's expired count: WHERE contract_id = ? AND expiry > 0 AND
\* expiry < ?.
countExpired(ms, contractId, now) ==
    Cardinality({k \in DOMAIN ms :
                    k[1] = contractId /\ ms[k].expiry > 0 /\ ms[k].expiry < now})

\* A variant of selectEvents that returns the oldest rows first.
selectEventsOldestFirst(evs, contractId, limit) ==
    {Limit([i \in 1..Len(f) |-> [event_type |-> evs[f[i]].event_type,
                                 payload |-> evs[f[i]].payload,
                                 tx_hash |-> evs[f[i]].tx_hash,
                                 created_at |-> evs[f[i]].created_at]], limit) :
        f \in OrderBy({j \in 1..Len(evs) : evs[j].contract_id = contractId},
                      [j \in 1..Len(evs) |-> evs[j].created_at], FALSE)}

\* SELECT event_type, payload, tx_hash, created_at FROM events WHERE
\* contract_id = ? ORDER BY created_at DESC LIMIT ?.
selectEvents(evs, contractId, limit) ==
    {Limit([i \in 1..Len(f) |-> [event_type |-> evs[f[i]].event_type,
                                 payload |-> evs[f[i]].payload,
                                 tx_hash |-> evs[f[i]].tx_hash,
                                 created_at |-> evs[f[i]].created_at]], limit) :
        f \in OrderBy({j \in 1..Len(evs) : evs[j].contract_id = contractId},
                      [j \in 1..Len(evs) |-> evs[j].created_at], TRUE)}

\* A query run by the command line or an HTTP route on its own read-only
\* connection: it yields `result` and writes nothing.
Answer(result) ==
    /\ out' = result
    /\ UNCHANGED <<chain, contracts, roles, members, events, indexer_state, running,
                   pc, queue, cur, attempt, page, latest, idx, okLog, pageFailed,
                   faults, pageStart, crashRec, pollStart, skipped, slept, sdk>>

listRoles(contractId) ==
    \E rows \in selectRoles(roles, contractId) :
        Answer([op |-> "roles", contractId |-> contractId, rows |-> rows])

\* A variant of listMembers that deletes the memberships it finds expired.
listMembersPurging(contractId, role, now) ==
    \E rows \in selectMembers(members, contractId, role, now) :
        /\ out' = [op |-> "members", contractId |-> contractId, role |-> role,
                   now |-> now, rows |-> rows]
        /\ members' = [k \in {h \in DOMAIN members :
                                 ~(h[1] = contractId /\ h[2] = role
                                   /\ isExpired(members[h].expiry, now))} |-> members[k]]
        /\ UNCHANGED <<chain, contracts, roles, events, indexer_state, running,
                       pc, queue, cur, attempt, page, latest, idx, okLog, pageFailed,
                       faults, pageStart, crashRec, pollStart, skipped, slept, sdk>>

\* listMembers, run when the clock reads `now`.
listMembers(contractId, role, now) ==
    \E rows \in selectMembers(members, contractId, role, now) :
        Answer([op |-> "members", contractId |-> contractId, role |-> role,
                now |-> now, rows |-> rows])

\* listExpiring: maxExpiry = now + hours * 3600.
listExpiring(contractId, now, hours) ==
    \E rows \in selectExpiring(members, contractId, now, now + hours * 3600) :
        Answer([op |-> "expiring", contractId |-> contractId, now |-> now,
                hours |-> hours, rows |-> rows])

\* getSummary's expiring count: next24h = now + 24 * 3600, and WHERE
\* contract_id = ? AND expiry > 0 AND expiry > ? AND expiry < ?.
expiringSoonSummary(ms, contractId, now) ==
    Cardinality({k \in DOMAIN ms :
                    k[1] = contractId /\ expiringWhere(ms[k].expiry, now, now + 24 * 3600)})

\* getSummary: the five counts, the window being the next 24 hours.
getSummary(contractId, now) ==
    /\ out' = [op |-> "summary", contractId |-> contractId, now |-> now,
               totalRoles |-> Cardinality({k \in DOMAIN roles : k[1] = contractId}),
               totalMembers |-> Cardinality({k \in DOMAIN members : k[1] = contractId}),
               expiringSoon |-> expiringSoonSummary(members, contractId, now),
               expired |-> countExpired(members, contractId, now),
               totalEvents |->
                   Cardinality({j \in 1..Len(events) : events[j].contract_id = contractId})]
    /\ UNCHANGED <<chain, contracts, roles, members, events, indexer_state, running,
                   pc, queue, cur, attempt, page, latest, idx, okLog, pageFailed,
                   faults, pageStart, crashRec, pollStart, skipped, slept, sdk>>

listEvents(contractId, limit) ==
    \E rows \in selectEvents(events, contractId, limit) :
        Answer([op |-> "events", contractId |-> contractId, limit |-> limit,
                rows |-> rows])

\* The stats route's expiring count: dayFromNow = now + 24 * 60 * 60, and
\* WHERE contract_id = ? AND expiry IS NOT NULL AND expiry > ? AND expiry <= ?.
expiringSoonStats(ms, contractId, now) ==
    Cardinality({k \in DOMAIN ms :
                    /\ k[1] = contractId
                    /\ ms[k].expiry > now
                    /\ ms[k].expiry <= now + 24 * 60 * 60})

\* GET /api/indexer/stats: the three counts.
statsRoute(contractId, now) ==
    /\ out' = [op |-> "stats", contractId |-> contractId, now |-> now,
               activeRoles |-> Cardinality({k \in DOMAIN roles : k[1] = contractId}),
               totalGrants |-> Cardinality({k \in DOMAIN members : k[1] = contractId}),
               expiringSoon |-> expiringSoonStats(members, contractId, now)]
    /\ UNCHANGED <<chain, contracts, roles, members, events, indexer_state, running,
                   pc, queue, cur, attempt, page, latest, idx, okLog, pageFailed,
                   faults, pageStart, crashRec, pollStart, skipped, slept, sdk>>

\* Grants that expire at 100 and at 3650, closed in ledgers 3 and 2.
RawGrantedY == Raw("RoleGrant", "OPERATOR", "Y", Val(TRUE, None, "G", 100), 3, TRUE)
RawGrantedZ == Raw("RoleGrant", "OPERATOR", "Z", Val(TRUE, None, "G", 3650), 2, TRUE)

\* The events of the ledger while the queries are explored: a role and three
\* grants of contract c1, one grant of contract c2.
QueryShapes ==
    ({"c1"} \X {RawCreated, RawGrantedOld, RawGrantedY, RawGrantedZ})
        \cup ({"c2"} \X {RawGrantedY})

\* The clock readings of the queries: before, at and after the expiry 100.
Nows == {50, 100, 150}

\* The --hours of listExpiring: none, and one (from 50, a window ending at 3650).
Hours == {0, 1}

\* The first poll() has begun on a database where both contracts are
\* registered; the ledger holds at most QueryLen events of the two contracts.
InitQ ==
    \E ch \in PagesOf(QueryShapes, QueryLen) :
        /\ chain = [i \in 1..Len(ch) |-> Emitted(ch[i][1], i, ch[i][2])]
        /\ contracts = [c \in Contracts |-> [deployed_at |-> 0]]
        /\ roles = Empty
        /\ members = Empty
        /\ events = <<>>
        /\ indexer_state = Empty
        /\ running = TRUE
        /\ pc = "fetch"
        /\ queue = <<"c2">>
        /\ cur = "c1"
        /\ attempt = 1
        /\ page = <<>>
        /\ latest = 0
        /\ idx = 0
        /\ okLog = <<>>
        /\ pageFailed = FALSE
        /\ faults = 0
        /\ pageStart = NoSnap
        /\ crashRec = NoCrash
        /\ pollStart = [roles |-> Empty, members |-> Empty, events |-> <<>>,
                        indexer_state |-> Empty, fetched |-> FALSE]
        /\ skipped = {}
        /\ slept = <<>>
        /\ out = NoOut
        /\ sdk = NoSdk

\* The poll goes on without a fault while any query runs at any moment.
NextQ ==
    \/ FetchOk(Len(chain), QueryLen)
    \/ processEvent(FALSE)
    \/ Checkpoint
    \/ \E c \in Contracts : listRoles(c)
    \/ \E c \in Contracts : \E now \in Nows : listMembers(c, "OPERATOR", now)
    \/ \E c \in Contracts : \E now \in Nows : \E hours \in Hours : listExpiring(c, now, hours)
    \/ \E c \in Contracts : \E now \in Nows : getSummary(c, now)
    \/ \E c \in Contracts : \E limit \in 0..MaxLimit : listEvents(c, limit)

SpecQ == InitQ /\ [][NextQ]_vars


\* A grant that expires 24 hours after the clock reading 50.
RawGrantedW == Raw("RoleGrant", "OPERATOR", "W", Val(TRUE, None, "G", 86450), 2, TRUE)

\* The events of the pages applied while the two counts are compared.
StatsShapes == {RawCreated, RawGrantedOld, RawGrantedY, RawGrantedW}

\* A page of at most QueryLen events has been fetched on a new database.
InitStats == \E P \in PagesOf(StatsShapes, QueryLen) : Fetched("c1", P, FALSE)

\* The page is applied while the command line's summary and the HTTP stats
\* route read the tables.
NextStats ==
    \/ processEvent(FALSE)
    \/ \E c \in Contracts : \E now \in Nows : getSummary(c, now)
    \/ \E c \in Contracts : \E now \in Nows : statsRoute(c, now)

SpecStats == InitStats /\ [][NextStats]_vars

\* ------------------------------------------------------ the SDK: withRetry
\* The indexer's process and database, which an SDK call does not touch.
indexerVars ==
    <<chain, contracts, roles, members, events, indexer_state, running, pc,
      queue, cur, attempt, page, latest, idx, okLog, pageFailed, faults,
      pageStart, crashRec, pollStart, skipped, slept, out>>

\* DEFAULT_RETRY_OPTIONS.baseDelayMs and .maxDelayMs.
baseDelayMs == 1000
maxDelayMs == 10000

\* The messages of the errors the wrapped function rejects with.
ErrorMessages == {"timeout", "rate limit", "HostError"}

\* isTransientError, the default isRetryable: the message holds one of these.
isTransientError(message) ==
    message \in {"network", "timeout", "econnreset", "econnrefused", "socket hang up",
                 "fetch failed", "rate limit", "503", "502", "504"}

\* Math.random() * 0.3, in hundredths: from 0 up to, not including, 30.
Jitters == {0, 15, 29}

\* calculateDelay: baseDelayMs * 2^attempt plus the jitter, capped at
\* maxDelayMs; baseDelayMs without exponential backoff.
calculateDelay(n, exponentialBackoff, jitter) ==
    IF ~exponentialBackoff
    THEN baseDelayMs
    ELSE LET exponentialDelay == baseDelayMs * 2 ^ n
         IN  Min(exponentialDelay + (jitter * exponentialDelay) \div 100, maxDelayMs)

\* withRetry(fn, { maxRetries, exponentialBackoff }) is called: the options
\* are merged with the defaults and the loop begins with attempt = 0.
withRetry(maxRetries, exponentialBackoff) ==
    /\ sdk = NoSdk
    /\ sdk' = [op |-> "withRetry", maxRetries |-> maxRetries,
               exponentialBackoff |-> exponentialBackoff, attempt |-> 0,
               status |-> "call", calls |-> 0, errors |-> <<>>, delays |-> <<>>,
               result |-> None]
    /\ UNCHANGED indexerVars

\* `return await fn()`: fn resolves and withRetry returns its value.
fnResolves ==
    /\ sdk.op = "withRetry"
    /\ sdk.status = "call"
    /\ sdk' = [sdk EXCEPT !.calls = @ + 1, !.status = "returned", !.result = "value"]
    /\ UNCHANGED indexerVars

\* A variant of fnRejects that retries whatever the error is.
fnRejectsAlwaysRetry(message, jitter) ==
    /\ sdk.op = "withRetry"
    /\ sdk.status = "call"
    /\ LET error == [message |-> message, call |-> sdk.calls + 1]
       IN  IF sdk.attempt < sdk.maxRetries
           THEN sdk' = [sdk EXCEPT
                            !.calls = @ + 1,
                            !.errors = Append(@, error),
                            !.status = "sleep",
                            !.delays = Append(@, calculateDelay(sdk.attempt,
                                                     sdk.exponentialBackoff, jitter))]
           ELSE sdk' = [sdk EXCEPT
                            !.calls = @ + 1,
                            !.errors = Append(@, error),
                            !.status = "threw",
                            !.result = error]
    /\ UNCHANGED indexerVars

\* fn rejects: lastError = error; if attempt < maxRetries and the error is
\* retryable the delay is slept, otherwise the loop breaks and lastError is
\* thrown.
fnRejects(message, jitter) ==
    /\ sdk.op = "withRetry"
    /\ sdk.status = "call"
    /\ LET error == [message |-> message, call |-> sdk.calls + 1]
       IN  IF sdk.attempt < sdk.maxRetries /\ isTransientError(error.message)
           THEN sdk' = [sdk EXCEPT
                            !.calls = @ + 1,
                            !.errors = Append(@, error),
                            !.status = "sleep",
                            !.delays = Append(@, calculateDelay(sdk.attempt,
                                                     sdk.exponentialBackoff, jitter))]
           ELSE sdk' = [sdk EXCEPT
                            !.calls = @ + 1,
                            !.errors = Append(@, error),
                            !.status = "threw",
                            !.result = error]
    /\ UNCHANGED indexerVars

\* The sleep ends: attempt++, and fn is invoked again.
sleepEnds ==
    /\ sdk.op = "withRetry"
    /\ sdk.status = "sleep"
    /\ sdk' = [sdk EXCEPT !.attempt = @ + 1, !.status = "call"]
    /\ UNCHANGED indexerVars

NextRetry ==
    \/ \E maxRetries \in 0..MaxSdkRetries : \E exponentialBackoff \in BOOLEAN :
           withRetry(maxRetries, exponentialBackoff)
    \/ fnResolves
    \/ \E message \in ErrorMessages : \E jitter \in Jitters : fnRejects(message, jitter)
    \/ sleepEnds

SpecRetry == Init /\ [][NextRetry]_vars

\* ----------------------------------------------- the SDK: watchRoleEvents
\* The contract watched, and the events it emits meanwhile.
Watched == "c1"

WatchShapes == {RawCreated, RawGranted, RawUnknown}

\* EVENT_TYPE_MAP: the tags the SDK knows.
EVENT_TYPE_MAP == typeMap

\* parseRoleEvent: null for a tag EVENT_TYPE_MAP does not hold or an event
\* that does not decode, the role event otherwise.
parseRoleEvent(rawEvent) ==
    IF ~rawEvent.raw.decodes \/ rawEvent.raw.tag \notin DOMAIN EVENT_TYPE_MAP
    THEN Null
    ELSE [type |-> EVENT_TYPE_MAP[rawEvent.raw.tag], role |-> rawEvent.raw.role,
          timestamp |-> rawEvent.raw.closedAt, txHash |-> rawEvent.id]

\* A ledger closes with an event of the watched contract.
ledgerCloses(raw) ==
    /\ sdk.op = "watch"
    /\ Len(chain) < MaxLedger
    /\ chain' = Append(chain, Emitted(Watched, Len(chain) + 1, raw))
    /\ UNCHANGED <<contracts, roles, members, events, indexer_state, running, pc,
                   queue, cur, attempt, page, latest, idx, okLog, pageFailed, faults,
                   pageStart, crashRec, pollStart, skipped, slept, out, sdk>>

\* poll() up to its await: getEvents is sent with the cursor as it is now
\* (startLedger 1 without a cursor).
SendPoll(w) ==
    [w EXCEPT !.polls = @ + 1,
              !.pending = @ \cup {[poll |-> w.polls + 1, cursor |-> w.lastCursor]}]

\* watchRoleEvents is called: setInterval(poll, pollInterval), then the
\* initial poll().
watchRoleEvents ==
    /\ sdk = NoSdk
    /\ sdk' = SendPoll([op |-> "watch", lastCursor |-> None, polls |-> 0,
                        pending |-> {}, delivered |-> <<>>])
    /\ UNCHANGED indexerVars

\* A variant of the timer's poll that is skipped while a poll is pending.
timerPollGuarded ==
    /\ sdk.op = "watch"
    /\ sdk.polls < MaxPolls
    /\ sdk.pending = {}
    /\ sdk' = SendPoll(sdk)
    /\ UNCHANGED indexerVars

\* The interval timer fires and poll() is called, whether or not an earlier
\* poll() is still awaiting its answer.
timerPoll ==
    /\ sdk.op = "watch"
    /\ sdk.polls < MaxPolls
    /\ sdk' = SendPoll(sdk)
    /\ UNCHANGED indexerVars

\* getEvents answers the request r: every event of the answer that parses is
\* handed to the callback, and after an answer with events the cursor becomes
\* response.latestLedger.toString().
pollAnswered(r) ==
    /\ sdk.op = "watch"
    /\ r \in sdk.pending
    /\ LET response == getEvents(chain, Watched,
                                 IF r.cursor = None THEN 1 ELSE parseInt(r.cursor) + 1,
                                 PageLimit, Len(chain))
           parsed == SelectSeq([i \in 1..Len(response.events) |->
                                   parseRoleEvent(response.events[i])],
                               LAMBDA e : e # Null)
       IN  sdk' = [sdk EXCEPT
                       !.pending = @ \ {r},
                       !.delivered = @ \o [i \in 1..Len(parsed) |-> parsed[i].txHash],
                       !.lastCursor = IF response.events # <<>>
                                      THEN toString(response.latestLedger) ELSE @]
    /\ UNCHANGED indexerVars

\* getEvents rejects the request r: the catch logs the error.
pollRejected(r) ==
    /\ sdk.op = "watch"
    /\ r \in sdk.pending
    /\ sdk' = [sdk EXCEPT !.pending = @ \ {r}]
    /\ UNCHANGED indexerVars

\* The requests awaiting their answer.
Pending == IF sdk.op = "watch" THEN sdk.pending ELSE {}

NextWatch ==
    \/ watchRoleEvents
    \/ \E raw \in WatchShapes : ledgerCloses(raw)
    \/ timerPoll
    \/ \E r \in Pending : pollAnswered(r)
    \/ \E r \in Pending : pollRejected(r)

SpecWatch == Init /\ [][NextWatch]_vars

\* ------------------------------------------------------------ properties
Last(seq) == seq[Len(seq)]

\* The domain events the parser yields for the raw events of the model.
DomainEvents ==
    {parseEvent(c, Emitted(c, i, r)) : c \in Contracts, i \in 1..ProjLen, r \in RawShapes}
        \ {Null}

\* The domain events of a page, in order.
ParsedOf(c, pg) ==
    SelectSeq([i \in 1..Len(pg) |-> parseEvent(c, pg[i])], LAMBDA e : e # Null)

\* The payloads of audit rows, in insertion order.
Payloads(evs) == [i \in 1..Len(evs) |-> evs[i].payload]

\* The projector folded over a sequence of domain events.
RECURSIVE FoldRoles(_, _)
FoldRoles(rs, es) ==
    IF es = <<>> THEN rs ELSE FoldRoles(ApplyRoles(rs, Head(es), FALSE), Tail(es))

RECURSIVE FoldMembers(_, _)
FoldMembers(ms, es) ==
    IF es = <<>> THEN ms ELSE FoldMembers(ApplyMembers(ms, Head(es), FALSE), Tail(es))

\* The rows of a table, and the audit rows, of one contract.
RowsOf(table, c) == [k \in {x \in DOMAIN table : x[1] = c} |-> table[k]]

AuditCount(evs, c) == Len(SelectSeq(evs, LAMBDA r : r.contract_id = c))

\* This step appended the audit row of an event of kind `kind` whose handler
\* completed.
Applied(kind) ==
    /\ Len(events') = Len(events) + 1
    /\ Last(events').event_type = kind
    /\ Last(okLog')

\* C1: for every registered contract, every ledger event of that contract
\* that parses to a domain event and lies at a position at or below the
\* stored checkpoint has an audit row.
NoGapCheckpoint ==
    \A c \in DOMAIN contracts : \A i \in 1..Len(chain) :
        ( /\ chain[i].contract = c
          /\ i <= getLastIndexedLedger(indexer_state, c)
          /\ parseEvent(c, chain[i]) # Null )
        => \E j \in 1..Len(events) : events[j].contract_id = c /\ events[j].tx_hash = i

\* C2: from every reachable state and for every domain event, applying the
\* event twice leaves the roles and role_members tables as applying it once.
IdempotentProjection ==
    \A e \in DomainEvents :
        /\ ApplyRoles(ApplyRoles(roles, e, FALSE), e, FALSE) = ApplyRoles(roles, e, FALSE)
        /\ ApplyMembers(ApplyMembers(members, e, FALSE), e, FALSE)
               = ApplyMembers(members, e, FALSE)

\* C2's case: the same grant has been applied twice in a row.
GrantAppliedTwice ==
    /\ Len(events) >= 2
    /\ events[Len(events)] = events[Len(events) - 1]
    /\ okLog[Len(events)] /\ okLog[Len(events) - 1]
    /\ Last(events).event_type = "RoleGranted"
    /\ members # Empty

\* C3: folding the audit rows, in insertion order, through the projector
\* from empty tables gives the current roles and role_members tables.
ReplayReconstructs ==
    /\ FoldRoles(Empty, Payloads(events)) = roles
    /\ FoldMembers(Empty, Payloads(events)) = members

\* C4: no step lowers the stored checkpoint of any contract.
CheckpointNeverDecreases ==
    [][\A c \in Contracts :
          getLastIndexedLedger(indexer_state', c) >= getLastIndexedLedger(indexer_state, c)]_vars

\* C5: a step appends an event's audit row exactly when it makes the event's
\* writes to roles and role_members: the row and the effect come together.
AtomicApply ==
    [][ /\ events' # events =>
             /\ roles' = ApplyRoles(roles, Last(events').payload, FALSE)
             /\ members' = ApplyMembers(members, Last(events').payload, FALSE)
        /\ (roles' # roles \/ members' # members) => Len(events') = Len(events) + 1 ]_vars

\* C6: when a handler's write failed while the page was applied, the step
\* that ends the page leaves the checkpoint as it was.
FailedPageKeepsCheckpoint ==
    [][(pc = "checkpoint" /\ pageFailed) => indexer_state' = indexer_state]_vars

\* C7: when the process was killed after k of the n events of a page and the
\* restarted process has applied the same n events, the contract's roles and
\* role_members rows are those of applying the n events once to the tables
\* the page was fetched on, and the audit table has grown by k + n rows.
CrashReplayConverges ==
    ( /\ pc = "checkpoint"
      /\ crashRec # NoCrash
      /\ ~pageFailed )
    => ( (crashRec.contract = cur /\ crashRec.page = page) =>
         LET s == crashRec.start
             once == ParsedOf(cur, page)
             cut == ParsedOf(cur, SubSeq(page, 1, crashRec.k))
         IN  /\ RowsOf(roles, cur) = RowsOf(FoldRoles(s.roles, once), cur)
             /\ RowsOf(members, cur) = RowsOf(FoldMembers(s.members, once), cur)
             /\ AuditCount(events, cur)
                    = AuditCount(s.events, cur) + Len(cut) + Len(once) )

\* C7's case, Scenario D: killed after 3 of 5 events, all 5 applied again, 8
\* audit rows.
ScenarioD ==
    /\ pc = "checkpoint"
    /\ crashRec # NoCrash
    /\ crashRec.k = 3
    /\ crashRec.page = page
    /\ Len(page) = 5
    /\ Len(events) = 8
    /\ roles # Empty
    /\ members # Empty

\* C8: applying RoleCreated for a (contract, role) that already has a row
\* leaves that row's admin role and created timestamp unchanged.
RoleCreatedKeepsExistingRow ==
    [][Applied("RoleCreated") =>
         LET e == Last(events').payload
             key == <<e.contractId, e.role>>
         IN  key \in DOMAIN roles => roles'[key] = roles[key]]_vars

\* C9: applying RoleAdminChanged inserts a row carrying the new admin when
\* the (contract, role) has none, and otherwise sets the row's admin role to
\* the new admin and changes nothing else.
AdminChangedUpsertsRole ==
    [][Applied("RoleAdminChanged") =>
         LET e == Last(events').payload
             key == <<e.contractId, e.role>>
         IN  /\ members' = members
             /\ key \in DOMAIN roles'
             /\ roles'[key].admin_role = e.newAdmin
             /\ \A k \in DOMAIN roles \ {key} : k \in DOMAIN roles' /\ roles'[k] = roles[k]
             /\ key \in DOMAIN roles =>
                    /\ DOMAIN roles' = DOMAIN roles
                    /\ roles'[key].created_at = roles[key].created_at]_vars

\* The kinds that write role_members, and the key an event of them names.
MemberKinds == {"RoleGranted", "RoleRevoked", "RoleExpired"}

KeyOf(e) == <<e.contractId, e.role, e.account>>

\* The audit row of the last event applied for a membership key (0: none).
LastApplied(key) ==
    LET S == {i \in 1..Len(events) : /\ okLog[i]
                                     /\ events[i].event_type \in MemberKinds
                                     /\ KeyOf(events[i].payload) = key}
    IN  IF S = {} THEN 0 ELSE CHOOSE i \in S : \A j \in S : j <= i

\* C10: a role_members row exists for a key exactly when the last event
\* applied for the key is a RoleGranted, and then it holds that grant's
\* expiry and timestamp, whatever timestamps earlier grants carried.
StreamOrderDecides ==
    \A key \in {KeyOf(e) : e \in {d \in DomainEvents : d.eventType \in MemberKinds}}
                 \cup DOMAIN members :
        LET i == LastApplied(key)
        IN  /\ key \in DOMAIN members <=> (i # 0 /\ events[i].event_type = "RoleGranted")
            /\ key \in DOMAIN members =>
                   members[key] = [expiry |-> events[i].payload.expiry,
                                   last_updated |-> events[i].payload.ledgerTimestamp]

\* C10's case: a grant closed at time 1 was applied after a grant closed at
\* time 2, and the row holds the later-applied grant.
OlderGrantAppliedLast ==
    /\ Len(events) >= 2
    /\ okLog[Len(events)] /\ okLog[Len(events) - 1]
    /\ events[Len(events) - 1].event_type = "RoleGranted"
    /\ events[Len(events)].event_type = "RoleGranted"
    /\ events[Len(events) - 1].payload.ledgerTimestamp
           > events[Len(events)].payload.ledgerTimestamp
    /\ KeyOf(events[Len(events)].payload) \in DOMAIN members
    /\ members[KeyOf(events[Len(events)].payload)].last_updated
           = events[Len(events)].payload.ledgerTimestamp

\* The fields of a domain event that do not depend on its kind.
CommonFields ==
    {"contractId", "role", "account", "adminRole", "previousAdmin", "newAdmin",
     "txHash", "ledgerTimestamp"}

\* C11: from every reachable state, a RoleRevoked and a RoleExpired event for
\* the same (contract, role, account) leave the same roles and role_members
\* tables: roles as it was, role_members without the key and otherwise as it
\* was, with no error when the key is absent; the audit rows they append
\* agree on everything but the event kind (and the value the event carries).
ExpiredActsAsRevoked ==
    \A r \in DomainEvents : \A x \in DomainEvents :
        ( /\ r.eventType = "RoleRevoked"
          /\ x.eventType = "RoleExpired"
          /\ KeyOf(r) = KeyOf(x) )
        => /\ ~HandlerThrows(r, FALSE) /\ ~HandlerThrows(x, FALSE)
           /\ ApplyRoles(roles, r, FALSE) = roles
           /\ ApplyRoles(roles, x, FALSE) = roles
           /\ ApplyMembers(members, r, FALSE) = ApplyMembers(members, x, FALSE)
           /\ ApplyMembers(members, x, FALSE) = Delete(members, KeyOf(x))
           /\ (r.txHash = x.txHash /\ r.ledgerTimestamp = x.ledgerTimestamp) =>
                  LET a == Last(storeEvent(events, r))
                      b == Last(storeEvent(events, x))
                  IN  /\ Len(storeEvent(events, r)) = Len(events) + 1
                      /\ Len(storeEvent(events, x)) = Len(events) + 1
                      /\ a.event_type = "RoleRevoked"
                      /\ b.event_type = "RoleExpired"
                      /\ a.contract_id = b.contract_id
                      /\ a.tx_hash = b.tx_hash
                      /\ a.created_at = b.created_at
                      /\ \A f \in CommonFields : a.payload[f] = b.payload[f]

\* C11's case: a RoleExpired was applied to a membership a grant had made,
\* and the membership is gone.
ExpiredDeletedMembership ==
    /\ Len(events) >= 2
    /\ okLog[Len(events)] /\ okLog[Len(events) - 1]
    /\ events[Len(events) - 1].event_type = "RoleGranted"
    /\ events[Len(events)].event_type = "RoleExpired"
    /\ KeyOf(events[Len(events)].payload) = KeyOf(events[Len(events) - 1].payload)
    /\ KeyOf(events[Len(events)].payload) \notin DOMAIN members

KnownOnly(pg) == SelectSeq(pg, LAMBDA e : e.raw.tag \in DOMAIN typeMap)

UnknownTagDropped ==
    /\ DOMAIN typeMap = {"RoleCreat", "RoleGrant", "RoleRevok", "AdminChg", "RoleExpir"}
    /\ typeMap["RoleCreat"] = "RoleCreated"
    /\ typeMap["RoleGrant"] = "RoleGranted"
    /\ typeMap["RoleRevok"] = "RoleRevoked"
    /\ typeMap["AdminChg"] = "RoleAdminChanged"
    /\ typeMap["RoleExpir"] = "RoleExpired"
    /\ \A i \in 1..idx :
           page[i].raw.tag \notin DOMAIN typeMap => parseEvent(cur, page[i]) = Null
    /\ \A j \in 1..Len(events) : events[j].event_type \in HandledKinds

\* A raw event that does not have the shape its kind requires: it does not
\* decode, it lacks the role topic, a membership kind lacks the account
\* topic, or a kind that carries a pair has a value that is not one.
Malformed(raw) ==
    \/ ~raw.decodes
    \/ /\ raw.tag \in DOMAIN typeMap
       /\ \/ raw.role = None
          \/ typeMap[raw.tag] \in MemberKinds /\ raw.account = None
          \/ typeMap[raw.tag] \in {"RoleGranted", "RoleAdminChanged"}
                /\ ~raw.value.isArray

\* C15: the step that processes a malformed raw event writes no roles,
\* role_members or events row.
MalformedYieldsNothing ==
    [][(pc = "apply" /\ idx' = idx + 1 /\ Malformed(page[idx + 1].raw))
           => UNCHANGED <<roles, members, events>>]_vars

\* C16: a contract's fetch is attempted at most 3 times in a cycle, and once
\* a fetch of the cycle has answered no other fetch of that contract is
\* pending or awaited in that cycle.
FetchCeiling ==
    /\ attempt <= 3
    /\ (pc \in {"fetch", "backoff"} /\ pollStart # NoSnap) => ~pollStart.fetched

\* C17: the step in which pollWithRetry gives up on a contract none of whose
\* fetches answered leaves the tables and the checkpoint as they were when the
\* contract's poll began, keeps the process running, and goes on to the next
\* contract of the cycle (or to the sleep); the next cycle polls every
\* contract the last one gave up on.
ExhaustedRetriesSkip ==
    [][ /\ (pollStart # NoSnap /\ skipped' # skipped /\ cur \in skipped') =>
               (~pollStart.fetched =>
                   /\ roles' = pollStart.roles
                   /\ members' = pollStart.members
                   /\ events' = pollStart.events
                   /\ indexer_state' = pollStart.indexer_state
                   /\ running'
                   /\ IF queue = <<>>
                      THEN pc' = "sleeping"
                      ELSE pc' = "fetch" /\ cur' = Head(queue) /\ attempt' = 1)
        /\ (pc = "sleeping" /\ pc' = "fetch") =>
               \A c \in skipped : c = cur' \/ \E i \in 1..Len(queue') : queue'[i] = c
      ]_vars

\* C17's case: in a cycle that found tables already written, the first
\* contract's retries were exhausted and the second contract is being fetched.
SkippedThenNext ==
    /\ "c1" \in skipped
    /\ cur = "c2"
    /\ pc = "fetch"
    /\ attempt = 1
    /\ events # <<>>
    /\ "c1" \in DOMAIN indexer_state

\* C18: while one contract is polled in one cycle, each event of the ledger
\* gets at most one audit row: no event of a fetched page is applied twice.
RetryOnlyFetch ==
    pollStart # NoSnap =>
        \A i \in 1..Len(chain) :
            Cardinality({j \in (Len(pollStart.events) + 1)..Len(events) :
                            events[j].contract_id = cur /\ events[j].tx_hash = i}) <= 1

\* C19: while a cycle is in flight (a fetch is awaited, a backoff sleep runs)
\* no step exits the process or closes the store.
CooperativeShutdown ==
    [][(pc \in {"fetch", "backoff"}) => (pc' # "exited")]_vars

\* A contract's fetch, apply or checkpoint step is in flight.
InFlight == pc \in {"fetch", "backoff", "apply", "checkpoint"}

\* C20: while a contract's pipeline is in flight, the process moves to
\* another contract or to the sleep only from the end of that pipeline (the
\* page processed to its end, or the fetch not answered), and then to the
\* next contract of the same cycle; the attempt counter only changes by a
\* backoff; a page being applied is not left; a cycle begins only when no
\* pipeline is in flight.
SequentialPipeline ==
    [][ /\ (InFlight /\ pc' \notin {"boot", "exited"} /\ <<cur', queue'>> # <<cur, queue>>) =>
               /\ pc \in {"fetch", "checkpoint"}
               /\ pc = "checkpoint" => idx = Len(page)
               /\ IF queue = <<>>
                  THEN pc' = "sleeping" /\ cur' = None /\ queue' = <<>>
                  ELSE pc' = "fetch" /\ cur' = Head(queue) /\ queue' = Tail(queue)
                       /\ attempt' = 1
        /\ (InFlight /\ pc' \notin {"boot", "exited"} /\ cur' = cur /\ attempt' # attempt) =>
               pc = "backoff" /\ attempt' = attempt + 1
        /\ (pc = "apply" /\ pc' \notin {"boot", "exited"}) =>
               cur' = cur /\ page' = page /\ idx' = idx + 1
        /\ (~InFlight /\ pc' = "fetch") => pc \in {"boot", "sleeping"} /\ page = <<>>
      ]_vars

\* C20's case: the first contract's page has been applied and its checkpoint
\* written, and the second contract's fetch is pending in the same cycle.
SecondContractAfterFirst ==
    /\ cur = "c2"
    /\ pc = "fetch"
    /\ queue = <<>>
    /\ pollStart # NoSnap
    /\ "c1" \in DOMAIN pollStart.indexer_state
    /\ \E j \in 1..Len(events) : events[j].contract_id = "c1"

\* C21: no step removes a row of contracts or changes one: registering an id
\* that is tracked leaves its row, with its first-seen time, as it was.
RegistrationIdempotent ==
    [][\A c \in DOMAIN contracts :
          c \in DOMAIN contracts' /\ contracts'[c] = contracts[c]]_vars

\* C21's case: the process has been started again later than a contract was
\* first registered, and main is about to register its contract.
RegisteredEarlier ==
    /\ pc = "boot"
    /\ faults > 0
    /\ "c1" \in DOMAIN contracts
    /\ contracts["c1"].deployed_at < Len(chain)

\* C22: no step removes a roles row: every key of roles is a key of roles
\* after the step.
RolesNeverDeleted ==
    [][DOMAIN roles \subseteq DOMAIN roles']_vars

\* C22's case: a role was created, events of other kinds were applied after
\* it, and its row is there.
RoleOutlivesEvents ==
    /\ Len(events) >= 3
    /\ events[1].event_type = "RoleCreated"
    /\ okLog[1]
    /\ Last(events).event_type \in {"RoleRevoked", "RoleAdminChanged", "RoleExpired"}
    /\ Last(okLog)
    /\ <<events[1].contract_id, events[1].payload.role>> \in DOMAIN roles

\* C28: the step that applies a RoleCreated raw event for a (contract, role)
\* without a row adds exactly that row, holding the event's admin role and
\* close time, and leaves the other roles rows and role_members as they were.
RoleCreatedInsertsRow ==
    [][ ( /\ pc = "apply"
          /\ idx' = idx + 1
          /\ page[idx + 1].raw.decodes
          /\ page[idx + 1].raw.tag = "RoleCreat"
          /\ Len(okLog') = Len(okLog) + 1
          /\ Last(okLog')
          /\ <<cur, page[idx + 1].raw.role>> \notin DOMAIN roles )
        => LET raw == page[idx + 1].raw
               key == <<cur, raw.role>>
           IN  /\ DOMAIN roles' = DOMAIN roles \cup {key}
               /\ roles'[key] = [admin_role |-> raw.value.str0, created_at |-> raw.closedAt]
               /\ \A k \in DOMAIN roles : roles'[k] = roles[k]
               /\ members' = members ]_vars

\* C28's case, Scenario A: RoleCreated(OPERATOR, DEF_ADMIN) applied to empty
\* tables: one roles row, with admin role DEF_ADMIN.
ScenarioA ==
    /\ Len(events) = 1
    /\ events[1].event_type = "RoleCreated"
    /\ okLog = <<TRUE>>
    /\ Cardinality(DOMAIN roles) = 1
    /\ \A k \in DOMAIN roles : k[2] = "OPERATOR" /\ roles[k].admin_role = "DEF_ADMIN"
    /\ members = Empty

\* The audit rows added since the page was fetched hold, in order, the
\* domain events of the part of the page processed so far.
ApplyInOrder ==
    (pc \in {"apply", "checkpoint"} /\ pageStart # NoSnap) =>
        /\ Len(events) >= Len(pageStart.events)
        /\ Payloads(SubSeq(events, Len(pageStart.events) + 1, Len(events)))
               = ParsedOf(cur, SubSeq(page, 1, idx))

\* C29: the apply step follows the fetch and the checkpoint step follows the
\* apply (or a fetch that found no event); the events of the page are
\* processed one by one in the order received; the checkpoint is written only
\* at the checkpoint step, when the whole page has been processed and a fetch
\* of this cycle has answered.
CycleOrder ==
    /\ []ApplyInOrder
    /\ [][ /\ (indexer_state' # indexer_state) =>
                ( /\ pc = "checkpoint"
                  /\ idx = Len(page)
                  /\ pollStart # NoSnap
                  /\ pollStart.fetched
                  /\ indexer_state' = setLastIndexedLedger(indexer_state, cur, latest) )
           /\ (pc' = "apply" /\ pc # "apply") => (pc = "fetch" /\ idx' = 0)
           /\ (pc' = "checkpoint" /\ pc # "checkpoint") =>
                ( \/ (pc = "fetch" /\ page' = <<>>)
                  \/ (pc = "apply" /\ idx' = Len(page)) )
           /\ (pc = "apply" /\ pc' \in {"apply", "checkpoint"}) =>
                (idx' = idx + 1 /\ page' = page)
          ]_vars

\* C29's case: a cycle has fetched a page of two events, applied them in
\* order and written the checkpoint, with no fault.
PageThenCheckpoint ==
    /\ pc = "sleeping"
    /\ faults = 0
    /\ Len(events) = 2
    /\ events[1].tx_hash < events[2].tx_hash
    /\ events[1].contract_id = events[2].contract_id
    /\ getLastIndexedLedger(indexer_state, events[1].contract_id) >= events[2].tx_hash

\* The delays slept so far double from 1000 ms, and stay at or below the
\* delay before the last attempt.
DelaysDouble ==
    /\ \A k \in 1..Len(slept) : slept[k] = 1000 * 2 ^ (k - 1)
    /\ \A k \in 1..Len(slept) : slept[k] <= 2000
    /\ pc = "backoff" => Len(slept) = attempt
    /\ pc \in {"fetch", "apply", "checkpoint"} => Len(slept) = attempt - 1

RowsIn(rows) == {rows[i] : i \in 1..Len(rows)}

\* C24: a membership is shown expired exactly when its expiry is not 0 and is
\* strictly below the clock reading of the query, so one whose expiry is 0,
\* equal to the reading or above it is shown active; the summary counts as
\* expired the memberships of the contract so classified.
ExpiryBoundary ==
    [][ /\ (out' # out /\ out'.op = "members") =>
             /\ {<<r.account, r.expiry>> : r \in RowsIn(out'.rows)}
                    = {<<k[3], members[k].expiry>> :
                          k \in {h \in DOMAIN members :
                                    h[1] = out'.contractId /\ h[2] = out'.role}}
             /\ \A r \in RowsIn(out'.rows) :
                    /\ r.isExpired <=> (r.expiry # 0 /\ r.expiry < out'.now)
                    /\ (r.expiry = 0 \/ r.expiry > out'.now) => ~r.isExpired
                    /\ r.expiry = out'.now => ~r.isExpired
        /\ (out' # out /\ out'.op = "summary") =>
             out'.expired =
                 Cardinality({k \in DOMAIN members :
                                 /\ k[1] = out'.contractId
                                 /\ members[k].expiry # 0
                                 /\ members[k].expiry < out'.now})
      ]_vars

\* C24's case: the members of a role were listed at the very instant one of
\* them expires; it is shown active, and so is one that never expires.
ExpiresNow ==
    /\ out.op = "members"
    /\ \E r \in RowsIn(out.rows) : r.expiry = out.now /\ ~r.isExpired
    /\ \E r \in RowsIn(out.rows) : r.expiry = 0 /\ ~r.isExpired
    /\ \A r \in RowsIn(out.rows) :
           /\ <<out.contractId, out.role, r.account>> \in DOMAIN members
           /\ members[<<out.contractId, out.role, r.account>>].expiry = r.expiry

\* C25: the memberships listed as expiring are exactly those of the contract
\* whose expiry is not 0, above the clock reading and below the window's end
\* (the reading plus the window); a grant that expires at 100 is listed at 50
\* and not at 150, and a grant that never expires is not listed.
ExpiringWindow ==
    [][ (out' # out /\ out'.op = "expiring") =>
          LET end == out'.now + out'.hours * 3600
              listed == {<<r.role, r.account, r.expiry>> : r \in RowsIn(out'.rows)}
              Y == <<out'.contractId, "OPERATOR", "Y">>
          IN  /\ listed = {<<k[2], k[3], members[k].expiry>> :
                              k \in {h \in DOMAIN members :
                                        /\ h[1] = out'.contractId
                                        /\ members[h].expiry # 0
                                        /\ members[h].expiry > out'.now
                                        /\ members[h].expiry < end}}
              /\ Len(out'.rows) = Cardinality(listed)
              /\ \A r \in RowsIn(out'.rows) : r.expiry # 0
              /\ (Y \in DOMAIN members /\ members[Y].expiry = 100) =>
                     /\ (out'.now = 50 /\ end >= 200) =>
                            <<"OPERATOR", "Y", 100>> \in listed
                     /\ out'.now = 150 => <<"OPERATOR", "Y", 100>> \notin listed
      ]_vars

\* C25's case, Scenario C: a grant that expires at 100 is listed by a query
\* run at 50; the grant that never expires and the one that expires at the
\* window's end (3650) are in the table and not listed.
ScenarioC ==
    /\ out.op = "expiring"
    /\ out.now = 50
    /\ out.hours = 1
    /\ {<<r.account, r.expiry>> : r \in RowsIn(out.rows)} = {<<"Y", 100>>}
    /\ \E k \in DOMAIN members : k[1] = out.contractId /\ members[k].expiry = 0
    /\ \E k \in DOMAIN members : k[1] = out.contractId /\ members[k].expiry = 3650

\* C26: the recent-events query returns at most `limit` rows, each a row of
\* events of the contract asked for, newest first, and every row of the
\* contract newer than a returned row is returned as well.
RecentEvents ==
    [][ (out' # out /\ out'.op = "events") =>
          LET rows == out'.rows
              mine == {j \in 1..Len(events) : events[j].contract_id = out'.contractId}
          IN  /\ Len(rows) <= out'.limit
              /\ \A i \in 1..Len(rows) :
                     /\ rows[i].payload.contractId = out'.contractId
                     /\ \E j \in mine :
                            /\ rows[i].tx_hash = events[j].tx_hash
                            /\ rows[i].event_type = events[j].event_type
                            /\ rows[i].payload = events[j].payload
                            /\ rows[i].created_at = events[j].created_at
              /\ \A i, j \in 1..Len(rows) :
                     i < j => rows[i].created_at >= rows[j].created_at
              /\ \A i \in 1..Len(rows) :
                     Cardinality({j \in mine : events[j].created_at > rows[i].created_at})
                         = Cardinality({h \in 1..Len(rows) :
                                           rows[h].created_at > rows[i].created_at})
      ]_vars

\* C26's case: the events table holds rows of both contracts, two of them of
\* the contract asked for and closed at different times; the query with
\* limit 1 returned the newer one.
NewestOfTwo ==
    /\ out.op = "events"
    /\ out.limit = 1
    /\ Len(out.rows) = 1
    /\ \E j \in 1..Len(events) : events[j].contract_id # out.contractId
    /\ \E i, j \in 1..Len(events) :
           /\ events[i].contract_id = out.contractId
           /\ events[j].contract_id = out.contractId
           /\ events[i].created_at < events[j].created_at
           /\ out.rows[1].tx_hash = events[j].tx_hash
    /\ \A j \in 1..Len(events) :
           events[j].contract_id = out.contractId =>
               events[j].created_at <= out.rows[1].created_at

\* C27: a step in which a query answers leaves contracts, roles,
\* role_members, events and indexer_state as they were.
ReadsWriteNothing ==
    [][ (out' # out) =>
          /\ contracts' = contracts
          /\ roles' = roles
          /\ members' = members
          /\ events' = events
          /\ indexer_state' = indexer_state ]_vars

\* C27's case: the members of a role were listed while one of them was past
\* its expiry, and its row is still in the table.
ExpiredRowListed ==
    /\ out.op = "members"
    /\ \E r \in RowsIn(out.rows) :
           /\ r.isExpired
           /\ <<out.contractId, out.role, r.account>> \in DOMAIN members
           /\ members[<<out.contractId, out.role, r.account>>].expiry = r.expiry
    /\ roles # Empty
    /\ events # <<>>
    /\ indexer_state # Empty

\* C31: when getEvents answers with no event, the step that takes the answer
\* and the checkpoint step after it leave roles, role_members and events as
\* they were; the checkpoint step stores the latest ledger of the answer for
\* the polled contract when the answer reports one, and leaves indexer_state
\* as it was when it reports none.
EmptyPageFrame ==
    [][ /\ (pc = "fetch" /\ pc' = "checkpoint") =>
               /\ page' = <<>>
               /\ <<roles', members', events', indexer_state'>>
                      = <<roles, members, events, indexer_state>>
        /\ (pc = "checkpoint" /\ page = <<>> /\ faults' = faults) =>
               /\ <<roles', members', events'>> = <<roles, members, events>>
               /\ IF latest # 0
                  THEN /\ getLastIndexedLedger(indexer_state', cur) = latest
                       /\ \A c \in DOMAIN indexer_state' \ {cur} :
                              c \in DOMAIN indexer_state
                              /\ indexer_state'[c] = indexer_state[c]
                  ELSE indexer_state' = indexer_state
      ]_vars

\* C31's case: contract c1 was polled while the ledger held events of the
\* other contract only; its page was empty, no table has a row, and its
\* checkpoint is the ledger's tip.
EmptyPageCheckpointed ==
    /\ pc = "fetch"
    /\ cur = "c2"
    /\ faults = 0
    /\ Len(chain) >= 1
    /\ events = <<>>
    /\ roles = Empty
    /\ members = Empty
    /\ getLastIndexedLedger(indexer_state, "c1") = Len(chain)

\* C32: the page a fetch returns holds the polled contract's events from the
\* ledger after the stored checkpoint on (from ledger 1 without a stored
\* checkpoint), up to the node's latest ledger and the page limit; this holds
\* of the first fetch after the process was started again as of any other.
ResumeAfterCheckpoint ==
    [][ (pc = "fetch" /\ pc' \in {"apply", "checkpoint"}) =>
          LET P == IF cur \in DOMAIN indexer_state
                   THEN getLastIndexedLedger(indexer_state, cur) ELSE 0
              pending == SelectSeq(SubSeq(chain, P + 1, latest'),
                                   LAMBDA e : e.contract = cur)
          IN  /\ indexer_state' = indexer_state
              /\ page' = SubSeq(pending, 1, Min(Len(pending), PageLimit))
              /\ \A i \in 1..Len(page') : page'[i].id > P
      ]_vars

\* C32's case: the process was killed in the middle of a page and started
\* again; the fetch after the restart returned the events after the
\* checkpoint stored before the kill.
ResumedAfterRestart ==
    /\ pc = "apply"
    /\ idx = 0
    /\ crashRec # NoCrash
    /\ crashRec.contract = cur
    /\ getLastIndexedLedger(indexer_state, cur) >= 1
    /\ page[1].id = getLastIndexedLedger(indexer_state, cur) + 1

OtherContractsUntouched ==
    [][ (pc \in {"fetch", "backoff", "apply", "checkpoint"}) =>
          \A c \in Contracts \ {cur} :
              /\ RowsOf(roles', c) = RowsOf(roles, c)
              /\ RowsOf(members', c) = RowsOf(members, c)
              /\ SelectSeq(events', LAMBDA r : r.contract_id = c)
                     = SelectSeq(events, LAMBDA r : r.contract_id = c)
              /\ (c \in DOMAIN indexer_state) = (c \in DOMAIN indexer_state')
              /\ c \in DOMAIN indexer_state => indexer_state'[c] = indexer_state[c]
      ]_vars

\* C34's case: both contracts have a membership row and a checkpoint, and the
\* two checkpoints differ.
BothContractsIndexed ==
    /\ \E k \in DOMAIN members : k[1] = "c1"
    /\ \E k \in DOMAIN members : k[1] = "c2"
    /\ "c1" \in DOMAIN indexer_state
    /\ "c2" \in DOMAIN indexer_state
    /\ indexer_state["c1"] # indexer_state["c2"]

\* C36: the step in which getEvents rejects with 'not found' ends the poll of
\* the contract as an answer without events does: no backoff is slept, the
\* contract is not given up, the tables and the checkpoint stay as they
\* were, and the loop goes to the next contract or to the sleep; a step that
\* backs off or gives up from the fetch is the rejection with another error.
NotFoundIsEmptyPoll ==
    [][ /\ FetchNotFound =>
               /\ pc' \in {"fetch", "sleeping"}
               /\ pc' = "fetch" => (attempt' = 1 /\ cur' # cur)
               /\ Len(slept') <= Len(slept)
               /\ skipped' = skipped
               /\ <<roles', members', events', indexer_state', contracts'>>
                      = <<roles, members, events, indexer_state, contracts>>
        /\ (pc = "fetch" /\ (pc' = "backoff" \/ skipped' \notin {skipped, {}})) => FetchFail
      ]_vars

\* C36's case: the ledger holds an event of the registered contract, the
\* contract's poll has ended without a fault, and nothing was fetched,
\* stored or given up.
NotFoundSwallowed ==
    /\ pc = "sleeping"
    /\ faults = 0
    /\ skipped = {}
    /\ Len(chain) >= 1
    /\ \A i \in 1..Len(chain) : chain[i].contract \in DOMAIN contracts
    /\ events = <<>>
    /\ indexer_state = Empty

\* The ledger event at position i has an audit row.
Indexed(i) ==
    /\ i <= Len(chain)
    /\ \E j \in 1..Len(events) :
           events[j].contract_id = chain[i].contract /\ events[j].tx_hash = chain[i].id

\* C35: every event the ledger holds for a registered contract gets an audit
\* row at some later moment, as long as the indexer keeps running and the
\* source fails finitely often.
EventuallyIndexed ==
    \A i \in 1..MaxLedger :
        (Len(chain) >= i /\ chain[i].contract \in DOMAIN contracts) ~> Indexed(i)

\* What holds of a withRetry call at every moment: fn was invoked at most
\* maxRetries + 1 times; every failure followed by a delay or by another
\* invocation was a retryable one; a failure that is not retryable is the
\* last invocation and the call has thrown; a call that returned made no
\* invocation after the one that resolved; a call that threw threw the error
\* of its last invocation.
RetryState ==
    sdk.op = "withRetry" =>
        /\ sdk.calls <= sdk.maxRetries + 1
        /\ Len(sdk.delays) <= sdk.maxRetries
        /\ \A k \in 1..Len(sdk.errors) :
               (k < sdk.calls \/ sdk.status = "sleep") =>
                   isTransientError(sdk.errors[k].message)
        /\ \A k \in 1..Len(sdk.errors) :
               ~isTransientError(sdk.errors[k].message) =>
                   (k = sdk.calls /\ sdk.status = "threw")
        /\ sdk.status = "returned" =>
               (sdk.calls = Len(sdk.errors) + 1 /\ sdk.result = "value")
        /\ sdk.status = "threw" =>
               /\ sdk.calls = Len(sdk.errors)
               /\ sdk.result = Last(sdk.errors)
               /\ sdk.result.call = sdk.calls

\* C37: withRetry invokes fn at most maxRetries + 1 times and again only
\* after a retryable failure, stops at a failure that is not retryable,
\* returns at the first success and invokes fn no more once it has returned
\* or thrown, and throws the error of the last attempt when it gives up.
WithRetryContract ==
    /\ []RetryState
    /\ [][(sdk.op = "withRetry" /\ sdk.status \in {"returned", "threw"}) =>
              sdk' = sdk]_vars

\* C37's case: every attempt failed with a retryable error, fn was invoked
\* maxRetries + 1 times, at least three, the last delay was capped, and the
\* last attempt's error was thrown.
GaveUpAfterRetries ==
    /\ sdk.op = "withRetry"
    /\ sdk.status = "threw"
    /\ sdk.calls = sdk.maxRetries + 1
    /\ sdk.calls >= 3
    /\ \A k \in 1..Len(sdk.errors) : isTransientError(sdk.errors[k].message)
    /\ Last(sdk.delays) = maxDelayMs
    /\ sdk.result = Last(sdk.errors)

\* C38: no ledger event is handed to the callback of watchRoleEvents twice.
DeliveredAtMostOnce ==
    sdk.op = "watch" =>
        \A i, j \in 1..Len(sdk.delivered) :
            i # j => sdk.delivered[i] # sdk.delivered[j]

\* C39: on the same tables and at the same clock reading the stats route and
\* the summary count the same memberships as expiring within 24 hours.
SameExpiringSoon ==
    \A c \in Contracts : \A now \in Nows :
        expiringSoonStats(members, c, now) = expiringSoonSummary(members, c, now)

====
